---- MODULE Spec2Model ----
(***************************************************************************)
(* Model of pycollo/scaling.py: the basis scaling (class Scaling) derived  *)
(* from the variable bounds, and the per-mesh-iteration scaling (class     *)
(* IterationScaling) that expands it to a mesh, scales/unscales decision   *)
(* vectors and generates the objective/constraint scaling.                 *)
(*                                                                         *)
(* Numbers.  numpy float64 values are modelled as extended rationals       *)
(* <<n, d>> in lowest terms: d > 0 is the finite value n/d, <<1, 0>> is    *)
(* +inf, <<-1, 0>> is -inf and <<0, 0>> is NaN.  Rounding and the sign of  *)
(* zero are abstracted; division by zero, inf and NaN propagate as in      *)
(* IEEE arithmetic (numpy warns and does not raise).  <<0, -1>> marks a    *)
(* cell of np.empty that has not been assigned yet.                        *)
(***************************************************************************)
EXTENDS Integers, Sequences, FiniteSets, TLC

VARIABLES
    backend,         \* phases, ns, ne, x_bnd_lower, x_bnd_upper (backend.bounds)
    scaling_method,  \* ocp.settings.scaling_method
    x_scales,        \* Scaling.x_scales   (Unset until assigned)
    x_shifts,        \* Scaling.x_shifts   (Unset until assigned)
    c_scales,        \* Scaling.c_scales   (Unset until assigned)
    scaling_exc,     \* "" | "pending" | exception raised by Scaling.__init__
    iteration,       \* NoIteration | [number, N, update_scaling] of the mesh iteration
    _V,              \* IterationScaling._V      (Unset until assigned)
    _r,              \* IterationScaling._r      (Unset until assigned)
    _V_inv,          \* IterationScaling._V_inv  (Unset until assigned)
    _w,              \* IterationScaling._w      (NoValue until assigned)
    _W,              \* IterationScaling._W      (Unset until assigned)
    g,               \* gradient evaluated by the last _generate (Unset if none)
    generate_exc,    \* "" | "returned" | exception raised by the last _generate
    call,            \* the last scale_* / unscale_x call (and the one it was chained to)
    mesh_iterations, \* backend.mesh_iterations[:-1]: the earlier iterations and their scaling
    path,            \* the method the last _generate dispatched to ("" if none)
    blend,           \* [alpha, k, weights]: the blend weights of the update policy
    quadrature       \* [method, order, weights]: the last quadrature_weight call

vars == <<backend, scaling_method, x_scales, x_shifts, c_scales, scaling_exc,
          iteration, _V, _r, _V_inv, _w, _W, g, generate_exc, call,
          mesh_iterations, path, blend, quadrature>>

----------------------------------------------------------------------------
(* Bounds of the model *)

MaxN == 4
MaxX == 1
MaxG == 2
MaxIter == 3
MaxK == 5
MaxDen == 8

----------------------------------------------------------------------------
(* Extended rational arithmetic standing for numpy float64 arithmetic *)

Abs(n) == IF n < 0 THEN -n ELSE n

Sgn(n) == IF n < 0 THEN -1 ELSE IF n > 0 THEN 1 ELSE 0

RECURSIVE GCD(_, _)
GCD(a, b) == IF b = 0 THEN a ELSE GCD(b, a % b)

Norm(n, d) ==
    IF d = 0 THEN <<Sgn(n), 0>>
    ELSE LET k == GCD(Abs(n), Abs(d))
         IN  <<(Sgn(d) * n) \div k, Abs(d) \div k>>

NaN == <<0, 0>>
Inf == <<1, 0>>
Uninit == <<0, -1>>
Zero == <<0, 1>>
One == <<1, 1>>
Half == <<1, 2>>

Rat(i) == <<i, 1>>

IsFinite(a) == a[2] > 0

IsPositive(a) == a[1] > 0 /\ a[2] >= 0

Neg(a) == <<-a[1], a[2]>>

Mul(a, b) == Norm(a[1] * b[1], a[2] * b[2])

Add(a, b) ==
    IF a[2] = 0 \/ b[2] = 0
    THEN IF a[2] = 0 /\ b[2] = 0 THEN (IF a = b THEN a ELSE NaN)
         ELSE IF a[2] = 0 THEN a ELSE b
    ELSE Norm(a[1] * b[2] + b[1] * a[2], a[2] * b[2])

Sub(a, b) == Add(a, Neg(b))

Reciprocal(a) ==
    IF a = NaN THEN NaN
    ELSE IF a[1] = 0 THEN Inf
    ELSE Norm(a[2], a[1])

\* a <= b, for finite a and b
Leq(a, b) == a[1] * b[2] <= b[1] * a[2]

RECURSIVE Pow(_, _)
Pow(a, i) == IF i = 0 THEN One ELSE Mul(a, Pow(a, i - 1))

\* element-wise forms over arrays of equal length
VecSub(a, b) == [i \in DOMAIN a |-> Sub(a[i], b[i])]
VecAdd(a, b) == [i \in DOMAIN a |-> Add(a[i], b[i])]
VecMul(a, b) == [i \in DOMAIN a |-> Mul(a[i], b[i])]
VecHalf(a) == [i \in DOMAIN a |-> Mul(a[i], Half)]
VecReciprocal(a) == [i \in DOMAIN a |-> Reciprocal(a[i])]
VecRat(v) == [i \in DOMAIN v |-> Rat(v[i])]

\* np.ones(n) and np.empty(n)
Ones(n) == [i \in 1..n |-> One]
Empty(n) == [i \in 1..n |-> Uninit]

----------------------------------------------------------------------------
(* Slices.  A slice start:start+n is the sequence of the (1-based) indices *)
(* it selects.                                                             *)

Slice(start, n) == [k \in 1..n |-> start + k]

\* arr[slice]
Take(arr, slice) == [k \in DOMAIN slice |-> arr[slice[k]]]

\* arr[slice] = vals  (vals has the slice's length)
Put(arr, slice, vals) ==
    [i \in DOMAIN arr |->
        IF \E k \in DOMAIN slice : slice[k] = i
        THEN vals[CHOOSE k \in DOMAIN slice : slice[k] = i]
        ELSE arr[i]]

RECURSIVE SumTo(_, _)
SumTo(f, n) == IF n = 0 THEN 0 ELSE f[n] + SumTo(f, n - 1)

----------------------------------------------------------------------------
(* The backend's layout of the OCP-level variables and constraints: per    *)
(* phase the state (y), control (u), integral (q) and time (t) variables,  *)
(* then the static parameters (s); per phase the defect (y_eqn), path      *)
(* (p_con) and integral (q_fnc) constraints, then the endpoint constraints.*)

NumPhases(b) == Len(b.phases)

PhaseNumVar(b) == [p \in 1..NumPhases(b) |->
    b.phases[p].ny + b.phases[p].nu + b.phases[p].nq + b.phases[p].nt]

PhaseNumC(b) == [p \in 1..NumPhases(b) |->
    b.phases[p].ny + b.phases[p].np + b.phases[p].nq]

VarOffset(b, p) == SumTo(PhaseNumVar(b), p - 1)

COffset(b, p) == SumTo(PhaseNumC(b), p - 1)

num_var(b) == SumTo(PhaseNumVar(b), NumPhases(b)) + b.ns

num_c(b) == SumTo(PhaseNumC(b), NumPhases(b)) + b.ne

phase_y_var_slices(b) == [p \in 1..NumPhases(b) |->
    Slice(VarOffset(b, p), b.phases[p].ny)]

phase_u_var_slices(b) == [p \in 1..NumPhases(b) |->
    Slice(VarOffset(b, p) + b.phases[p].ny, b.phases[p].nu)]

phase_q_var_slices(b) == [p \in 1..NumPhases(b) |->
    Slice(VarOffset(b, p) + b.phases[p].ny + b.phases[p].nu, b.phases[p].nq)]

phase_t_var_slices(b) == [p \in 1..NumPhases(b) |->
    Slice(VarOffset(b, p) + b.phases[p].ny + b.phases[p].nu + b.phases[p].nq,
          b.phases[p].nt)]

s_var_slice(b) == Slice(SumTo(PhaseNumVar(b), NumPhases(b)), b.ns)

phase_y_eqn_slices(b) == [p \in 1..NumPhases(b) |->
    Slice(COffset(b, p), b.phases[p].ny)]

phase_p_con_slices(b) == [p \in 1..NumPhases(b) |->
    Slice(COffset(b, p) + b.phases[p].ny, b.phases[p].np)]

phase_q_fnc_slices(b) == [p \in 1..NumPhases(b) |->
    Slice(COffset(b, p) + b.phases[p].ny + b.phases[p].np, b.phases[p].nq)]

c_endpoint_slice(b) == Slice(SumTo(PhaseNumC(b), NumPhases(b)), b.ne)

----------------------------------------------------------------------------
(* class Scaling *)

BOUNDS == "bounds"
GUESS == "guess"
NONE == "none"
USER == "user"
PyNone == "None"

SCALING_METHODS == {BOUNDS, GUESS, USER, NONE, PyNone}

Unset == <<>>

_SCALE_DEFAULT == 1
_SHIFT_DEFAULT == 0

\* the bounds method with the halving of the range forgotten in the shift
_generate_bounds_wrong_shift(b) ==
    LET x_l == VecRat(b.x_bnd_lower)
        x_u == VecRat(b.x_bnd_upper)
    IN  <<VecSub(x_u, x_l), VecSub(x_u, VecSub(x_u, x_l))>>

\* Scaling._generate_bounds: (scales, shifts) from the bounds
_generate_bounds(b) ==
    LET x_l == VecRat(b.x_bnd_lower)
        x_u == VecRat(b.x_bnd_upper)
        scales == VecSub(x_u, x_l)
        shifts == VecSub(x_u, VecHalf(VecSub(x_u, x_l)))
    IN  <<scales, shifts>>

\* Scaling._generate_none: scale 1 and shift 0 for every variable
_generate_none(b) ==
    LET num_needed == num_var(b)
        scales == [i \in 1..num_needed |-> Mul(Rat(_SCALE_DEFAULT), One)]
        shifts == [i \in 1..num_needed |-> Mul(Rat(_SHIFT_DEFAULT), One)]
    IN  <<scales, shifts>>

\* the same with only the guess method raising
RaisesNotImplementedGuessOnly(method) == method = GUESS

\* Scaling._generate_guess and Scaling._generate_user raise
RaisesNotImplemented(method) == method \in {GUESS, USER}

\* Scaling._GENERATE_DISPATCHER[method]()
_GENERATE_DISPATCHER(method, b) ==
    IF method = BOUNDS THEN _generate_bounds(b) ELSE _generate_none(b)

\* Scaling._generate_constraint_base: the loop over the zipped phase slices
RECURSIVE ConstraintBaseLoop(_, _, _, _)
ConstraintBaseLoop(scales, xs, b, p) ==
    IF p > NumPhases(b) THEN scales
    ELSE LET s1 == Put(scales, phase_y_eqn_slices(b)[p],
                       Take(xs, phase_y_var_slices(b)[p]))
             s2 == Put(s1, phase_q_fnc_slices(b)[p],
                       Take(xs, phase_q_var_slices(b)[p]))
         IN  ConstraintBaseLoop(s2, xs, b, p + 1)

\* the same with the integral rows forgotten (left at 1)
RECURSIVE ConstraintBaseLoopNoIntegral(_, _, _, _)
ConstraintBaseLoopNoIntegral(scales, xs, b, p) ==
    IF p > NumPhases(b) THEN scales
    ELSE ConstraintBaseLoopNoIntegral(
             Put(scales, phase_y_eqn_slices(b)[p],
                 Take(xs, phase_y_var_slices(b)[p])), xs, b, p + 1)

_generate_constraint_base_no_integral(xs, b) ==
    ConstraintBaseLoopNoIntegral(Ones(num_c(b)), xs, b, 1)

_generate_constraint_base(xs, b) ==
    ConstraintBaseLoop(Ones(num_c(b)), xs, b, 1)

\* Scaling.__init__ -> Scaling._generate: the attributes it leaves behind
ScalingGenerate(method, b) ==
    IF RaisesNotImplemented(method)
    THEN [x_scales |-> Unset, x_shifts |-> Unset, c_scales |-> Unset,
          exc |-> "NotImplementedError"]
    ELSE LET ss == _GENERATE_DISPATCHER(method, b)
         IN  [x_scales |-> ss[1], x_shifts |-> ss[2],
              c_scales |-> _generate_constraint_base(ss[1], b),
              exc |-> ""]

----------------------------------------------------------------------------
(* The mesh iteration's layout of the discretised variables: per phase the *)
(* state and control values at each of the N[p] nodes, then the phase's    *)
(* integral and time variables; the static parameters last.                *)

IterPhaseNumX(b, it) == [p \in 1..NumPhases(b) |->
    (b.phases[p].ny + b.phases[p].nu) * it.N[p] + b.phases[p].nq + b.phases[p].nt]

XOffset(b, it, p) == SumTo(IterPhaseNumX(b, it), p - 1)

num_x(b, it) == SumTo(IterPhaseNumX(b, it), NumPhases(b)) + b.ns

y_slices(b, it) == [p \in 1..NumPhases(b) |->
    Slice(XOffset(b, it, p), b.phases[p].ny * it.N[p])]

u_slices(b, it) == [p \in 1..NumPhases(b) |->
    Slice(XOffset(b, it, p) + b.phases[p].ny * it.N[p], b.phases[p].nu * it.N[p])]

q_slices(b, it) == [p \in 1..NumPhases(b) |->
    Slice(XOffset(b, it, p) + (b.phases[p].ny + b.phases[p].nu) * it.N[p],
          b.phases[p].nq)]

t_slices(b, it) == [p \in 1..NumPhases(b) |->
    Slice(XOffset(b, it, p) + (b.phases[p].ny + b.phases[p].nu) * it.N[p]
            + b.phases[p].nq,
          b.phases[p].nt)]

s_slice(b, it) == Slice(SumTo(IterPhaseNumX(b, it), NumPhases(b)), b.ns)

\* and of the discretised constraints: per phase the defect constraints of
\* each state, the path constraints at each node and the integral constraints;
\* the endpoint constraints last.
num_c_defect_per_y(it) == [p \in DOMAIN it.N |-> it.N[p] - 1]

IterPhaseNumC(b, it) == [p \in 1..NumPhases(b) |->
    b.phases[p].ny * num_c_defect_per_y(it)[p] + b.phases[p].np * it.N[p]
        + b.phases[p].nq]

IterCOffset(b, it, p) == SumTo(IterPhaseNumC(b, it), p - 1)

c_defect_slices(b, it) == [p \in 1..NumPhases(b) |->
    Slice(IterCOffset(b, it, p), b.phases[p].ny * num_c_defect_per_y(it)[p])]

c_integral_slices(b, it) == [p \in 1..NumPhases(b) |->
    Slice(IterCOffset(b, it, p) + b.phases[p].ny * num_c_defect_per_y(it)[p]
            + b.phases[p].np * it.N[p],
          b.phases[p].nq)]

iteration_num_c(b, it) == SumTo(IterPhaseNumC(b, it), NumPhases(b)) + b.ne

----------------------------------------------------------------------------
(* class IterationScaling *)

\* np.tile(v, N): the whole of v, N times over
Tile(v, N) == [k \in 1..(Len(v) * N) |-> v[((k - 1) % Len(v)) + 1]]

\* np.repeat(v, N): each element of v, N times in a row
Repeat(v, N) == [k \in 1..(Len(v) * N) |-> v[((k - 1) \div N) + 1]]

\* IterationScaling._expand_x_to_mesh: the loop over the zipped phase slices
RECURSIVE ExpandXLoop(_, _, _, _, _)
ExpandXLoop(scaling, base_scaling, b, it, p) ==
    IF p > NumPhases(b) THEN scaling
    ELSE LET N == it.N[p]
             s1 == Put(scaling, y_slices(b, it)[p],
                       Repeat(Take(base_scaling, phase_y_var_slices(b)[p]), N))
             s2 == Put(s1, u_slices(b, it)[p],
                       Repeat(Take(base_scaling, phase_u_var_slices(b)[p]), N))
             s3 == Put(s2, q_slices(b, it)[p],
                       Take(base_scaling, phase_q_var_slices(b)[p]))
             s4 == Put(s3, t_slices(b, it)[p],
                       Take(base_scaling, phase_t_var_slices(b)[p]))
         IN  ExpandXLoop(s4, base_scaling, b, it, p + 1)

\* the same with np.tile in place of np.repeat
RECURSIVE ExpandXLoopTile(_, _, _, _, _)
ExpandXLoopTile(scaling, base_scaling, b, it, p) ==
    IF p > NumPhases(b) THEN scaling
    ELSE LET N == it.N[p]
             s1 == Put(scaling, y_slices(b, it)[p],
                       Tile(Take(base_scaling, phase_y_var_slices(b)[p]), N))
             s2 == Put(s1, u_slices(b, it)[p],
                       Tile(Take(base_scaling, phase_u_var_slices(b)[p]), N))
             s3 == Put(s2, q_slices(b, it)[p],
                       Take(base_scaling, phase_q_var_slices(b)[p]))
             s4 == Put(s3, t_slices(b, it)[p],
                       Take(base_scaling, phase_t_var_slices(b)[p]))
         IN  ExpandXLoopTile(s4, base_scaling, b, it, p + 1)

_expand_x_to_mesh_tile(base_scaling, b, it) ==
    Put(ExpandXLoopTile(Empty(num_x(b, it)), base_scaling, b, it, 1),
        s_slice(b, it), Take(base_scaling, s_var_slice(b)))

_expand_x_to_mesh(base_scaling, b, it) ==
    Put(ExpandXLoop(Empty(num_x(b, it)), base_scaling, b, it, 1),
        s_slice(b, it), Take(base_scaling, s_var_slice(b)))

\* IterationScaling.scale_x
scale_x(x) == VecMul(_V_inv, VecSub(x, _r))

\* IterationScaling.unscale_x
unscale_x(x_tilde) == VecAdd(VecMul(_V, x_tilde), _r)

\* IterationScaling.scale_sigma, scale_lagrange, scale_J, scale_c: the
\* argument, as it is
scale_sigma(sigma_tilde) == sigma_tilde
scale_lagrange(lagrange_tilde) == lagrange_tilde
scale_J(J) == J
scale_c(c) == c

\* IterationScaling._initialise_variable_scaling: (_V, _r, _V_inv)
_initialise_variable_scaling(b, it) ==
    LET V == _expand_x_to_mesh(x_scales, b, it)
        r == _expand_x_to_mesh(x_shifts, b, it)
    IN  <<V, r, VecReciprocal(V)>>

\* A non-negative real is kept as its square: Root(q) is the value whose
\* square is the extended rational q (np.sqrt), and 1 / Root(q) is Root(1/q).
Root(q) == [root |-> q]

NoValue == Root(Uninit)

RECURSIVE SumVec(_, _)
SumVec(v, n) == IF n = 0 THEN Zero ELSE Add(v[n], SumVec(v, n - 1))

\* np.sum(g**2)
SumSq(gr) == SumVec(VecMul(VecRat(gr), VecRat(gr)), Len(gr))

\* IterationScaling._calculate_objective_scaling, given g = _gradient_lambda(x_guess)
_calculate_objective_scaling(gr) ==
    LET g_norm == Root(SumSq(gr))
        obj_scaling == Root(Reciprocal(g_norm.root))
    IN  obj_scaling

\* IterationScaling._calculate_constraint_scaling: raises on entry
_calculate_constraint_scaling == [exc |-> "NotImplementedError", value |-> Unset]

\* IterationScaling._generate_first_iteration: attributes and exception left
_generate_first_iteration(w, W) ==
    LET w1 == Root(One)
        cs == _calculate_constraint_scaling
    IN  [w |-> w1, W |-> IF cs.exc = "" THEN cs.value ELSE W,
         exc |-> IF cs.exc = "" THEN "returned" ELSE cs.exc,
         path |-> "_generate_first_iteration",
         x_scales |-> x_scales, x_shifts |-> x_shifts]

\* IterationScaling._generate_from_base
_generate_from_base(w, W, gr) ==
    LET w1 == _calculate_objective_scaling(gr)
        cs == _calculate_constraint_scaling
    IN  [w |-> w1, W |-> IF cs.exc = "" THEN cs.value ELSE W,
         exc |-> IF cs.exc = "" THEN "returned" ELSE cs.exc,
         path |-> "_generate_from_base",
         x_scales |-> x_scales, x_shifts |-> x_shifts]

\* without the raise: self.x_scales aliases base_scaling.x_scales (line 332)
\* and set_scales_shifts writes 1 / var_amp into it, inf for a constant guess
_generate_from_previous_unguarded(w, W) ==
    [w |-> Root(One), W |-> W, exc |-> "NotImplementedError",
     path |-> "_generate_from_previous",
     x_scales |-> [x_scales EXCEPT ![1] = Inf], x_shifts |-> x_shifts]

\* IterationScaling._generate_from_previous: raises on entry, before the basis
\* arrays are aliased and written
_generate_from_previous(w, W) ==
    [w |-> w, W |-> W, exc |-> "NotImplementedError",
     path |-> "_generate_from_previous",
     x_scales |-> x_scales, x_shifts |-> x_shifts]

\* IterationScaling._generate: dispatch on the iteration number and the
\* update_scaling setting
GenerateDispatch(it, w, W, gr) ==
    IF it.number = 1 THEN _generate_first_iteration(w, W)
    ELSE IF it.update_scaling THEN _generate_from_previous(w, W)
    ELSE _generate_from_base(w, W, gr)

\* np.dot(a, b) of two 1-D arrays of equal length: their inner product, a
\* scalar (shape ())
Dot(a, b) == SumVec(VecMul(a, b), Len(a))

\* np.dot(M, v) of a 2-D array (a sequence of rows) and a 1-D array: a 1-D
\* array with one entry per row of M
MatVec(M, v) == [i \in 1..Len(M) |-> Dot(M[i], v)]

\* M.shape of a 2-D array with at least one row
Shape2(M) == <<Len(M), Len(M[1])>>

\* IterationScaling.scale_g: np.dot(g, self._V_inv), g and _V_inv both 1-D
scale_g(gr) == [exc |-> "", shape |-> <<>>, value |-> Dot(gr, _V_inv)]

\* IterationScaling.scale_G: np.dot of the dense Jacobian and the 1-D _V_inv,
\* a 1-D array that sparse.csr_matrix takes for a matrix of one row
scale_G(sG) ==
    LET product == MatVec(sG, _V_inv)
    IN  [exc |-> "", shape |-> <<1, Len(product)>>, value |-> <<product>>]

\* IterationScaling.scale_H: reads self._V_sqrd_inv, which nothing assigns
scale_H(sH) == [exc |-> "AttributeError", shape |-> Unset, value |-> Unset]

\* the weights of the update policy in _generate_from_previous, for the k
\* objective scales J_scales (the earlier iterations' and then the current one)
GeometricWeights(alpha, k) ==
    [j \in 1..k |-> Mul(alpha, Pow(Sub(One, alpha), j - 1))]

\* np.flip(weights)
FlipKept(v) == v

Flip(v) == [j \in 1..Len(v) |-> v[Len(v) + 1 - j]]

\* weights[0] /= alpha
DivideFirstSkipped(v, alpha) == v

DivideFirst(v, alpha) == [v EXCEPT ![1] = Mul(v[1], Reciprocal(alpha))]

Weights(alpha, k) == DivideFirst(Flip(GeometricWeights(alpha, k)), alpha)

DEFAULT_SCALING_WEIGHT == <<4, 5>>

----------------------------------------------------------------------------
(* Quadrature.quadrature_weight, as its tests pin it: the arrays the tests  *)
(* compare the returned weights with.  The fixtures are kept to six         *)
(* decimals.                                                                *)

Micro(v) == [i \in DOMAIN v |-> Norm(v[i], 1000000)]

\* test_lobatto_weights: weights_2, weights_3
LobattoFixture(n) ==
    IF n = 2 THEN <<Half, Half>> ELSE << <<1, 6>>, <<2, 3>>, <<1, 6>> >>

\* test_radau_weights: the arrays that weights_3, weights_4, weights_8 halve
RadauFixture(n) ==
    IF n = 3 THEN Micro(<<500000, 1500000, 0>>)
    ELSE IF n = 4 THEN Micro(<<222222, 1024972, 752806, 0>>)
    ELSE Micro(<<40816, 239227, 380950, 447110, 424704, 318204, 148988, 0>>)

\* np.round(a, 3) of a finite a >= 0 (half to even)
Round3(a) ==
    LET num == 2000 * a[1] + a[2]
        den == 2 * a[2]
        fl == num \div den
        t == IF num % den = 0 /\ fl % 2 = 1 THEN fl - 1 ELSE fl
    IN  Norm(t, 1000)

VecRound3(v) == [i \in DOMAIN v |-> Round3(v[i])]

\* np.array([...]) / 2
HalvedSkipped(v) == v

Halved(v) == VecHalf(v)

\* the array the returned weights are compared with, and the distance from
\* it that the comparison lets through for each entry
ExpectedWeights(method, n) ==
    IF method = "lobatto" THEN LobattoFixture(n)
    ELSE VecRound3(Halved(RadauFixture(n)))

Tolerance(method) == IF method = "lobatto" THEN Zero ELSE <<1, 2000>>

\* Quadrature.quadrature_weight(order), to the precision of its tests
quadrature_weight(method, order) == ExpectedWeights(method, order)

----------------------------------------------------------------------------
(* Inputs *)

PhaseY == [ny |-> 1, nu |-> 0, nq |-> 0, nt |-> 0, np |-> 0]
PhaseFull == [ny |-> 2, nu |-> 1, nq |-> 1, nt |-> 2, np |-> 1]
PhaseMixed == [ny |-> 1, nu |-> 1, nq |-> 1, nt |-> 1, np |-> 2]

Layouts ==
    { [phases |-> <<PhaseY, PhaseY>>, ns |-> 0, ne |-> 0],
      [phases |-> <<PhaseMixed>>, ns |-> 0, ne |-> 1],
      [phases |-> <<PhaseFull, PhaseMixed>>, ns |-> 1, ne |-> 1] }

\* (lower, upper): the example of the documentation, a zero-width range, a
\* reversed range and a range whose midpoint is not an integer
BoundPairs == { <<2, 10>>, <<3, 3>>, <<5, 1>>, <<0, 1>> }

BaseLower(n) == [i \in 1..n |-> i]
BaseUpper(n) == [i \in 1..n |-> 3 * i + 2]

\* every slot a proper range of its own width, at most one slot overridden
BoundsFor(n) ==
    { <<BaseLower(n), BaseUpper(n)>> } \cup
    { <<[BaseLower(n) EXCEPT ![k] = pr[1]], [BaseUpper(n) EXCEPT ![k] = pr[2]]>> :
        k \in 1..n, pr \in BoundPairs }

Backends ==
    UNION { { [phases |-> l.phases, ns |-> l.ns, ne |-> l.ne,
               x_bnd_lower |-> bd[1], x_bnd_upper |-> bd[2]] :
              bd \in BoundsFor(num_var(l)) } : l \in Layouts }

DefaultBounds(b) ==
    b.x_bnd_lower = BaseLower(num_var(b)) /\ b.x_bnd_upper = BaseUpper(num_var(b))

NoIteration == [number |-> 0, N |-> <<>>, update_scaling |-> FALSE]

Iterations(b) ==
    [number : 1..2, N : [1..NumPhases(b) -> 2..MaxN], update_scaling : BOOLEAN]

\* decision vectors handed to scale_x / unscale_x
XVectors(n) ==
    { [i \in 1..n |-> Rat(c)] : c \in (-MaxX)..MaxX } \cup { [i \in 1..n |-> Rat(i)] }

\* the bound vectors of the mesh iteration, which the caller scales as well
BoundVectors(b, it) ==
    { _expand_x_to_mesh(VecRat(b.x_bnd_lower), b, it),
      _expand_x_to_mesh(VecRat(b.x_bnd_upper), b, it) }

\* objective gradients at the guess
GVectors(n) ==
    { [i \in 1..n |-> IF i = 1 THEN a ELSE IF i = n THEN c ELSE 0] :
        a \in (-MaxG)..MaxG, c \in 0..MaxG }

\* the meshes of the refinement loop: the same number of nodes in every phase,
\* kept or raised by one from an iteration to the next; the update_scaling
\* setting is chosen once
UniformMesh(b, n) == [p \in 1..NumPhases(b) |-> n]

RefinedIterations(b, it) ==
    IF it = NoIteration
    THEN { [number |-> 1, N |-> UniformMesh(b, n), update_scaling |-> u] :
             n \in 2..MaxN, u \in BOOLEAN }
    ELSE { [number |-> it.number + 1, N |-> UniformMesh(b, n),
            update_scaling |-> it.update_scaling] :
             n \in { it.N[1], it.N[1] + 1 } \cap (2..MaxN) }

\* objective gradients at the guesses of the refinement loop
GuessGradients(n) == { [i \in 1..n |-> IF i = 1 THEN a ELSE 0] : a \in {1, MaxG} }

\* Jacobians (num_c rows, num_x columns) and Hessians (num_x by num_x)
Diagonal(m, n, c) == [i \in 1..m |-> [j \in 1..n |-> IF i = j THEN Rat(c) ELSE Zero]]

GMatrices(m, n) == { Diagonal(m, n, c) : c \in 1..MaxG }

HMatrices(n) == { Diagonal(n, n, c) : c \in 1..MaxG }

NoCall == [op |-> "", arg |-> Unset, res |-> Unset, chained |-> FALSE, first |-> Unset]

NoBlend == [alpha |-> Zero, k |-> 0, weights |-> Unset]

\* settings.scaling_update_weight, in (0, 1)
Alphas == UNION { { Norm(a, b) : a \in 1..(b - 1) } : b \in 2..MaxDen }

BlendInputs == [alpha : Alphas, k : 1..MaxK, weights : {Unset}]

\* the quadrature methods and orders of the tests
QuadratureInputs ==
    { [method |-> "lobatto", order |-> n, weights |-> Unset] : n \in {2, 3} } \cup
    { [method |-> "radau", order |-> n, weights |-> Unset] : n \in {3, 4, 8} }

NoQuadrature == [method |-> "", order |-> 0, weights |-> Unset]

----------------------------------------------------------------------------
(* Actions *)

InitScaling ==
    /\ backend \in Backends
    /\ scaling_method \in SCALING_METHODS
    /\ (scaling_method = BOUNDS \/ DefaultBounds(backend))
    /\ x_scales = Unset
    /\ x_shifts = Unset
    /\ c_scales = Unset
    /\ scaling_exc = "pending"
    /\ iteration = NoIteration
    /\ _V = Unset
    /\ _r = Unset
    /\ _V_inv = Unset
    /\ _w = NoValue
    /\ _W = Unset
    /\ g = Unset
    /\ generate_exc = ""
    /\ call = NoCall
    /\ mesh_iterations = <<>>
    /\ path = ""

Init == InitScaling /\ blend = NoBlend /\ quadrature = NoQuadrature

\* Scaling(backend)
ScalingInit ==
    /\ scaling_exc = "pending"
    /\ LET out == ScalingGenerate(scaling_method, backend)
       IN  /\ x_scales' = out.x_scales
           /\ x_shifts' = out.x_shifts
           /\ c_scales' = out.c_scales
           /\ scaling_exc' = out.exc
    /\ UNCHANGED <<backend, scaling_method, iteration, _V, _r, _V_inv, _w, _W, g,
                   generate_exc, call, mesh_iterations, path, blend, quadrature>>

\* what backend.mesh_iterations keeps of the iteration being replaced
IterationRecord ==
    [number |-> iteration.number, N |-> iteration.N,
     update_scaling |-> iteration.update_scaling, g |-> g,
     V |-> _V, r |-> _r, w |-> _w, W |-> _W, exc |-> generate_exc, path |-> path]

\* IterationScaling(iteration), for the mesh iteration built on the basis scaling
IterationScalingInit ==
    /\ scaling_exc = ""
    /\ iteration = NoIteration
    /\ \E it \in Iterations(backend) :
          LET out == _initialise_variable_scaling(backend, it)
          IN  /\ iteration' = it
              /\ _V' = out[1]
              /\ _r' = out[2]
              /\ _V_inv' = out[3]
    /\ UNCHANGED <<backend, scaling_method, x_scales, x_shifts, c_scales,
                   scaling_exc, _w, _W, g, generate_exc, call,
                   mesh_iterations, path, blend, quadrature>>

\* scaling.scale_x(x): a first call on a fresh vector, or a second call on the
\* result of the unscale_x call made just before
ScaleX ==
    /\ iteration # NoIteration
    /\ \/ /\ call.op = ""
          /\ \E x \in XVectors(Len(_V)) \cup BoundVectors(backend, iteration) :
                call' = [op |-> "scale_x", arg |-> x, res |-> scale_x(x),
                         chained |-> FALSE, first |-> Unset]
       \/ /\ call.op = "unscale_x"
          /\ ~call.chained
          /\ call' = [op |-> "scale_x", arg |-> call.res, res |-> scale_x(call.res),
                      chained |-> TRUE, first |-> call.arg]
    /\ UNCHANGED <<backend, scaling_method, x_scales, x_shifts, c_scales,
                   scaling_exc, iteration, _V, _r, _V_inv, _w, _W, g, generate_exc,
                   mesh_iterations, path, blend, quadrature>>

\* scaling.unscale_x(x_tilde): a first call on a fresh vector, or a second call
\* on the result of the scale_x call made just before
UnscaleX ==
    /\ iteration # NoIteration
    /\ \/ /\ call.op = ""
          /\ \E x_tilde \in XVectors(Len(_V)) :
                call' = [op |-> "unscale_x", arg |-> x_tilde,
                         res |-> unscale_x(x_tilde),
                         chained |-> FALSE, first |-> Unset]
       \/ /\ call.op = "scale_x"
          /\ ~call.chained
          /\ call' = [op |-> "unscale_x", arg |-> call.res,
                      res |-> unscale_x(call.res),
                      chained |-> TRUE, first |-> call.arg]
    /\ UNCHANGED <<backend, scaling_method, x_scales, x_shifts, c_scales,
                   scaling_exc, iteration, _V, _r, _V_inv, _w, _W, g, generate_exc,
                   mesh_iterations, path, blend, quadrature>>

\* scaling._generate(), with gr the objective gradient at iteration.guess_x
GenerateWith(gradients) ==
    /\ iteration # NoIteration
    /\ generate_exc = ""
    /\ \E gr \in gradients :
          LET out == GenerateDispatch(iteration, _w, _W, gr)
          IN  /\ _w' = out.w
              /\ _W' = out.W
              /\ generate_exc' = out.exc
              /\ g' = gr
              /\ path' = out.path
              /\ x_scales' = out.x_scales
              /\ x_shifts' = out.x_shifts
    /\ UNCHANGED <<backend, scaling_method, c_scales, scaling_exc, iteration,
                   _V, _r, _V_inv, call, mesh_iterations, blend, quadrature>>

Generate == GenerateWith(GVectors(Len(_V)))

\* IterationScaling(iteration) for the next mesh iteration of the refinement
\* loop: the iteration generated last joins backend.mesh_iterations[:-1] and a
\* new scaling object is built on the same basis scaling
MeshIteration ==
    /\ scaling_exc = ""
    /\ iteration = NoIteration \/ generate_exc # ""
    /\ iteration.number < MaxIter
    /\ \E it \in RefinedIterations(backend, iteration) :
          LET out == _initialise_variable_scaling(backend, it)
          IN  /\ iteration' = it
              /\ _V' = out[1]
              /\ _r' = out[2]
              /\ _V_inv' = out[3]
    /\ mesh_iterations' = IF iteration = NoIteration THEN mesh_iterations
                          ELSE Append(mesh_iterations, IterationRecord)
    /\ _w' = NoValue
    /\ _W' = Unset
    /\ g' = Unset
    /\ generate_exc' = ""
    /\ path' = ""
    /\ call' = NoCall
    /\ UNCHANGED <<backend, scaling_method, x_scales, x_shifts, c_scales,
                   scaling_exc, blend, quadrature>>

GenerateGuess == GenerateWith(GuessGradients(Len(_V)))

\* scaling.scale_sigma(v), scale_lagrange(v), scale_J(v), scale_c(v)
ScalePassThrough ==
    /\ iteration # NoIteration
    /\ call.op = ""
    /\ \E v \in { Ones(iteration_num_c(backend, iteration)) } :
          \/ call' = [NoCall EXCEPT !.op = "scale_sigma", !.arg = v, !.res = scale_sigma(v)]
          \/ call' = [NoCall EXCEPT !.op = "scale_lagrange", !.arg = v, !.res = scale_lagrange(v)]
          \/ call' = [NoCall EXCEPT !.op = "scale_J", !.arg = v, !.res = scale_J(v)]
          \/ call' = [NoCall EXCEPT !.op = "scale_c", !.arg = v, !.res = scale_c(v)]
    /\ UNCHANGED <<backend, scaling_method, x_scales, x_shifts, c_scales,
                   scaling_exc, iteration, _V, _r, _V_inv, _w, _W, g, generate_exc,
                   mesh_iterations, path, blend, quadrature>>

\* the record of a scale_g / scale_G / scale_H call
DerivativeCall(op, arg, arg_shape, out) ==
    [op |-> op, arg |-> arg, arg_shape |-> arg_shape, res |-> out.value,
     shape |-> out.shape, exc |-> out.exc, chained |-> FALSE, first |-> Unset]

\* scaling.scale_g(g), g the objective gradient
ScaleGradient ==
    /\ iteration # NoIteration
    /\ call.op = ""
    /\ \E gr \in GVectors(Len(_V)) :
          call' = DerivativeCall("scale_g", VecRat(gr), <<Len(gr)>>, scale_g(VecRat(gr)))
    /\ UNCHANGED <<backend, scaling_method, x_scales, x_shifts, c_scales,
                   scaling_exc, iteration, _V, _r, _V_inv, _w, _W, g, generate_exc,
                   mesh_iterations, path, blend, quadrature>>

\* scaling.scale_G(sG), sG the constraint Jacobian
ScaleJacobian ==
    /\ iteration # NoIteration
    /\ call.op = ""
    /\ \E sG \in GMatrices(iteration_num_c(backend, iteration), Len(_V)) :
          call' = DerivativeCall("scale_G", sG, Shape2(sG), scale_G(sG))
    /\ UNCHANGED <<backend, scaling_method, x_scales, x_shifts, c_scales,
                   scaling_exc, iteration, _V, _r, _V_inv, _w, _W, g, generate_exc,
                   mesh_iterations, path, blend, quadrature>>

\* scaling.scale_H(sH), sH the Hessian of the Lagrangian
ScaleHessian ==
    /\ iteration # NoIteration
    /\ call.op = ""
    /\ \E sH \in HMatrices(Len(_V)) :
          call' = DerivativeCall("scale_H", sH, Shape2(sH), scale_H(sH))
    /\ UNCHANGED <<backend, scaling_method, x_scales, x_shifts, c_scales,
                   scaling_exc, iteration, _V, _r, _V_inv, _w, _W, g, generate_exc,
                   mesh_iterations, path, blend, quadrature>>

\* the weights computed for the k objective scales of a refinement loop
BlendWeights ==
    /\ blend.weights = Unset
    /\ blend' = [blend EXCEPT !.weights = Weights(blend.alpha, blend.k)]
    /\ UNCHANGED <<backend, scaling_method, x_scales, x_shifts, c_scales,
                   scaling_exc, iteration, _V, _r, _V_inv, _w, _W, g, generate_exc,
                   call, mesh_iterations, path, quadrature>>

\* quadrature.quadrature_weight(order)
QuadratureWeight ==
    /\ quadrature.weights = Unset
    /\ quadrature' = [quadrature EXCEPT
                        !.weights = quadrature_weight(quadrature.method, quadrature.order)]
    /\ UNCHANGED <<backend, scaling_method, x_scales, x_shifts, c_scales,
                   scaling_exc, iteration, _V, _r, _V_inv, _w, _W, g, generate_exc,
                   call, mesh_iterations, path, blend>>

Next == ScalingInit \/ IterationScalingInit \/ ScaleX \/ UnscaleX

Spec == Init /\ [][Next]_vars

NextGenerate == ScalingInit \/ IterationScalingInit \/ Generate

SpecGenerate == Init /\ [][NextGenerate]_vars

\* the refinement loop: one basis scaling, then iteration after iteration
InitIterations == Init /\ DefaultBounds(backend) /\ scaling_method \in {BOUNDS, NONE}

NextIterations == ScalingInit \/ MeshIteration \/ GenerateGuess

SpecIterations == InitIterations /\ [][NextIterations]_vars

\* the scaling of the derivatives handed to the NLP solver
NextDerivatives ==
    ScalingInit \/ IterationScalingInit \/ ScaleGradient \/ ScaleJacobian \/ ScaleHessian

SpecDerivatives == InitIterations /\ [][NextDerivatives]_vars

\* one basis scaling and every operation of the iteration scalings built on it
InitFrame ==
    /\ Init
    /\ backend.phases = <<PhaseMixed>>
    /\ DefaultBounds(backend)
    /\ scaling_method = BOUNDS

NextFrame ==
    \/ ScalingInit
    \/ MeshIteration
    \/ GenerateGuess
    \/ ScaleX
    \/ UnscaleX
    \/ ScalePassThrough
    \/ ScaleGradient
    \/ ScaleJacobian
    \/ ScaleHessian

SpecFrame == InitFrame /\ [][NextFrame]_vars

\* the weight computations, on inputs drawn at the start
InitWeights ==
    /\ InitScaling
    /\ backend.phases = <<PhaseMixed>>
    /\ DefaultBounds(backend)
    /\ scaling_method = BOUNDS
    /\ blend \in BlendInputs
    /\ quadrature \in QuadratureInputs

NextWeights == BlendWeights \/ QuadratureWeight

SpecWeights == InitWeights /\ [][NextWeights]_vars

----------------------------------------------------------------------------
(* Properties of the basis scaling and of the variable scaling *)

Constructed == scaling_exc = ""

HasIteration == iteration # NoIteration

Slots == 1..num_var(backend)

Lower(i) == backend.x_bnd_lower[i]

Upper(i) == backend.x_bnd_upper[i]

\* (raw - shift_i) / scale_i, as scale_x computes it for one entry
Normalised(raw, i) == Mul(Reciprocal(x_scales[i]), Sub(raw, x_shifts[i]))

\* C1: for every IterationScaling and every finite vector, whatever the bounds
\* the basis scaling came from, unscale_x(scale_x(x)) = x and
\* scale_x(unscale_x(y)) = y: a call chained to the opposite call gives back
\* the first call's argument.
C1_RoundTrip == call.chained => call.res = call.first

\* C2: with the bounds method, every slot with lower < upper gets
\* scale = upper - lower and shift = upper - scale/2, and (raw - shift)/scale
\* sends lower to -1/2, upper to 1/2 and the midpoint to 0; on a mesh,
\* scale_x sends the expanded lower and upper bound vectors to -1/2 and 1/2 in
\* every position of such a slot.
C2_BoundsScaleShift ==
    (Constructed /\ scaling_method = BOUNDS) =>
        /\ \A i \in Slots :
              Lower(i) < Upper(i) =>
                /\ x_scales[i] = Rat(Upper(i) - Lower(i))
                /\ Add(x_shifts[i], Mul(x_scales[i], Half)) = Rat(Upper(i))
                /\ Normalised(Rat(Lower(i)), i) = Neg(Half)
                /\ Normalised(Rat(Upper(i)), i) = Half
                /\ Normalised(Mul(Rat(Lower(i) + Upper(i)), Half), i) = Zero
        /\ (call.op = "scale_x" /\ ~call.chained) =>
              LET lo == _expand_x_to_mesh(VecRat(backend.x_bnd_lower), backend, iteration)
                  hi == _expand_x_to_mesh(VecRat(backend.x_bnd_upper), backend, iteration)
              IN  /\ call.arg = lo =>
                        \A j \in DOMAIN lo :
                            lo[j][1] < hi[j][1] => call.res[j] = Neg(Half)
                  /\ call.arg = hi =>
                        \A j \in DOMAIN hi :
                            lo[j][1] < hi[j][1] => call.res[j] = Half

\* C2 witness: the slot with bounds [2, 10] has scale 8 and shift 6, and scale_x
\* has been applied to the lower bound vector of a mesh
C2_Witness ==
    /\ Constructed /\ scaling_method = BOUNDS
    /\ \E i \in Slots :
          /\ Lower(i) = 2 /\ Upper(i) = 10
          /\ x_scales[i] = Rat(8) /\ x_shifts[i] = Rat(6)
          /\ Normalised(Rat(6), i) = Zero
    /\ call.op = "scale_x"
    /\ call.arg = _expand_x_to_mesh(VecRat(backend.x_bnd_lower), backend, iteration)
    /\ \E j \in DOMAIN call.res : call.res[j] = Neg(Half)

\* C3: with the bounds method, a slot of zero width (upper = lower) gets
\* scale 1 and shift 0, so that no reciprocal of a scale is infinite.
C3_ZeroWidthFallback ==
    (Constructed /\ scaling_method = BOUNDS) =>
        /\ \A i \in Slots :
              Lower(i) = Upper(i) => (x_scales[i] = One /\ x_shifts[i] = Zero)
        /\ HasIteration => \A j \in DOMAIN _V_inv : IsFinite(_V_inv[j])

\* C4: every entry of x_scales, of c_scales and of every mesh-expanded _V is
\* strictly positive, for every supported method and every bounds input.
C4_ScalesPositive ==
    Constructed =>
        /\ \A i \in DOMAIN x_scales : IsPositive(x_scales[i])
        /\ \A i \in DOMAIN c_scales : IsPositive(c_scales[i])
        /\ HasIteration => \A j \in DOMAIN _V : IsPositive(_V[j])

\* C5: constructing Scaling with method guess or user raises during
\* construction, before x_scales, x_shifts or c_scales is assigned; with
\* bounds, none or None construction does not raise and assigns all three.
C5_UnsupportedMethodRaises ==
    scaling_exc # "pending" =>
        IF scaling_method \in {GUESS, USER}
        THEN /\ scaling_exc = "NotImplementedError"
             /\ x_scales = Unset /\ x_shifts = Unset /\ c_scales = Unset
        ELSE /\ scaling_exc = ""
             /\ Len(x_scales) = num_var(backend)
             /\ Len(x_shifts) = num_var(backend)
             /\ Len(c_scales) = num_c(backend)

\* C5 witness: a construction with method user has raised
C5_Witness ==
    /\ scaling_method = USER
    /\ scaling_exc = "NotImplementedError"
    /\ x_scales = Unset

\* C6: in c_scales, for every phase, each defect row equals the scale of its
\* state variable, each integral row equals the scale of its integral
\* variable, and every path and endpoint row equals 1.
C6_ConstraintBase ==
    Constructed =>
        /\ Len(c_scales) = num_c(backend)
        /\ \A p \in 1..NumPhases(backend) :
              LET ph == backend.phases[p]
                  c0 == COffset(backend, p)
                  v0 == VarOffset(backend, p)
              IN  /\ \A k \in 1..ph.ny : c_scales[c0 + k] = x_scales[v0 + k]
                  /\ \A k \in 1..ph.np : c_scales[c0 + ph.ny + k] = One
                  /\ \A k \in 1..ph.nq :
                        c_scales[c0 + ph.ny + ph.np + k] = x_scales[v0 + ph.ny + ph.nu + k]
        /\ \A k \in 1..backend.ne : c_scales[num_c(backend) - backend.ne + k] = One

\* C6 witness: two phases with path, integral and endpoint constraints, bounds
\* method, the integral rows of the two phases scaled differently from 1
C6_Witness ==
    /\ Constructed /\ scaling_method = BOUNDS
    /\ NumPhases(backend) = 2 /\ backend.ne = 1
    /\ \A p \in 1..2 :
          /\ backend.phases[p].nq = 1 /\ backend.phases[p].np >= 1
          /\ c_scales[phase_q_fnc_slices(backend)[p][1]] # One
    /\ c_scales[phase_q_fnc_slices(backend)[1][1]] #
          c_scales[phase_q_fnc_slices(backend)[2][1]]

\* C7: _expand_x_to_mesh returns a vector of length num_x with every position
\* assigned: in every phase each state and control entry fills one contiguous
\* block of N positions, and each integral, time and static-parameter entry
\* appears once, in phase order.
ExpandedAs(v, base) ==
    /\ Len(v) = num_x(backend, iteration)
    /\ \A j \in DOMAIN v : v[j] # Uninit
    /\ \A p \in 1..NumPhases(backend) :
          LET ph == backend.phases[p]
              N == iteration.N[p]
              x0 == XOffset(backend, iteration, p)
              v0 == VarOffset(backend, p)
          IN  /\ \A i \in 1..ph.ny : \A k \in 1..N :
                    v[x0 + (i - 1) * N + k] = base[v0 + i]
              /\ \A i \in 1..ph.nu : \A k \in 1..N :
                    v[x0 + ph.ny * N + (i - 1) * N + k] = base[v0 + ph.ny + i]
              /\ \A i \in 1..ph.nq :
                    v[x0 + (ph.ny + ph.nu) * N + i] = base[v0 + ph.ny + ph.nu + i]
              /\ \A i \in 1..ph.nt :
                    v[x0 + (ph.ny + ph.nu) * N + ph.nq + i]
                        = base[v0 + ph.ny + ph.nu + ph.nq + i]
    /\ \A i \in 1..backend.ns :
          v[Len(v) - backend.ns + i] = base[num_var(backend) - backend.ns + i]

C7_ExpandToMesh == HasIteration => (ExpandedAs(_V, x_scales) /\ ExpandedAs(_r, x_shifts))

\* C7 witness: one state in each of two phases on the mesh N = [3, 4]: a vector
\* of length 7 made of a constant block of 3 and a constant block of 4
C7_Witness ==
    /\ HasIteration /\ scaling_method = BOUNDS
    /\ iteration.N = <<3, 4>>
    /\ Len(x_scales) = 2
    /\ Len(_V) = 7
    /\ \A j \in 1..3 : _V[j] = x_scales[1]
    /\ \A j \in 4..7 : _V[j] = x_scales[2]
    /\ x_scales[1] # x_scales[2]

\* C7 witness of the general case: a phase with two states and a control
C7_WitnessTwoStates ==
    /\ HasIteration /\ scaling_method = BOUNDS
    /\ NumPhases(backend) = 2
    /\ backend.phases[1].ny = 2 /\ backend.phases[1].nu = 1
    /\ iteration.N = <<3, 2>>
    /\ _V[1] = _V[3] /\ _V[4] = _V[6] /\ _V[3] # _V[4]

----------------------------------------------------------------------------
(* Properties of the generated objective and constraint scaling *)

Generated == generate_exc # ""

\* the paths of _generate that are to compute the objective scale: the first
\* iteration, and a later iteration generated from the basis
FromBasisPath == iteration.number = 1 \/ ~iteration.update_scaling

\* C8: on the first iteration, and on a later iteration generated from basis,
\* _generate sets w with w^2 * sum(g_i^2) = 1 (stated for a gradient that is
\* not the zero vector).
C8_ObjectiveUnitNorm ==
    (Generated /\ FromBasisPath /\ SumSq(g) # Zero) =>
        Mul(_w.root, SumSq(g)) = One

\* C9: with the zero vector for the objective gradient, the objective-scale
\* computation fails with a DegenerateGradient error and no infinite or NaN
\* objective scale is stored.
C9_ZeroGradientFails ==
    (Generated /\ iteration.number # 1 /\ ~iteration.update_scaling
        /\ SumSq(g) = Zero) =>
        /\ generate_exc = "DegenerateGradient"
        /\ _w.root \notin {Inf, NaN}

\* C10: the constraint scale vector W returned by _calculate_constraint_scaling
\* has each defect row equal to the reciprocal of its state variable's scale
\* and each integral row equal to the reciprocal of its integral variable's
\* scale (the path and endpoint rows, reciprocals of Jacobian row norms, are
\* left out: the Jacobian is never evaluated).
C10_ConstraintScaleRows ==
    (Generated /\ FromBasisPath) =>
        /\ generate_exc = "returned"
        /\ Len(_W) = iteration_num_c(backend, iteration)
        /\ \A p \in 1..NumPhases(backend) :
              LET ph == backend.phases[p]
                  nd == num_c_defect_per_y(iteration)[p]
              IN  /\ \A i \in 1..ph.ny : \A k \in 1..nd :
                        _W[c_defect_slices(backend, iteration)[p][(i - 1) * nd + k]]
                            = Reciprocal(x_scales[phase_y_var_slices(backend)[p][i]])
                  /\ \A i \in 1..ph.nq :
                        _W[c_integral_slices(backend, iteration)[p][i]]
                            = Reciprocal(x_scales[phase_q_var_slices(backend)[p][i]])

\* Away from zero-width bounds the round trip of C1 holds.
RoundTripNonDegenerate ==
    (call.chained /\ \A j \in DOMAIN _V : _V[j] # Zero) => call.res = call.first

\* On a later iteration generated from basis the objective scale has
\* w^2 * sum(g_i^2) = 1 for a gradient that is not the zero vector.
FromBaseUnitNorm ==
    (Generated /\ iteration.number # 1 /\ ~iteration.update_scaling
        /\ SumSq(g) # Zero) =>
        Mul(_w.root, SumSq(g)) = One


----------------------------------------------------------------------------
(* The update policy over the iterations of the refinement loop *)

\* the iterations whose _generate call has ended, the current one included
Settled ==
    { mesh_iterations[i] : i \in 1..Len(mesh_iterations) } \cup
    (IF generate_exc # "" THEN {IterationRecord} ELSE {})

FirstIterationPath(e) == e.path = "_generate_first_iteration"

\* a blend with history leaves the blended objective scale in _w
Blended(e) == e.path = "_generate_from_previous" /\ e.w # NoValue

RecomputedFromBasis(e) == e.path = "_generate_from_base"

SameMeshAndGuess(e1, e2) == e1.N = e2.N /\ e1.g = e2.g

SameScaling(e1, e2) == e1.V = e2.V /\ e1.r = e2.r /\ e1.w = e2.w /\ e1.W = e2.W

\* C11: over any sequence of mesh iterations, _generate on iteration 1 takes
\* the first-iteration path whatever the update flag is; on an iteration >= 2
\* it blends with history exactly when update_scaling is enabled and else
\* recomputes from the basis; and with the flag disabled two iterations on the
\* same mesh and guess end with the same variable, objective and constraint
\* scaling whatever came before them.
C11_UpdatePolicy ==
    /\ \A e \in Settled :
          /\ e.number = 1 => FirstIterationPath(e)
          /\ e.number >= 2 =>
                IF e.update_scaling THEN Blended(e) ELSE RecomputedFromBasis(e)
    /\ \A e1, e2 \in Settled :
          (~e1.update_scaling /\ ~e2.update_scaling /\ SameMeshAndGuess(e1, e2))
              => SameScaling(e1, e2)


----------------------------------------------------------------------------
(* Failure of _generate *)

GenerateFailed == generate_exc # "" /\ generate_exc # "returned"

\* C12: whenever _generate fails it fails with an explicit error and leaves no
\* partial result: of the objective scale _w and the constraint scale _W,
\* either both were assigned by the call or both are as they were before it
\* (unassigned, _generate being called once on a scaling object).
C12_NoPartialResult ==
    GenerateFailed =>
        \/ _w # NoValue /\ _W # Unset
        \/ _w = NoValue /\ _W = Unset


----------------------------------------------------------------------------
(* The blend weights of the update policy *)

BlendComputed == blend.weights # Unset

\* C13: for every k >= 1 and alpha in (0, 1) the blend weights
\* alpha (1 - alpha)^(k - i), i = 1..k, with the earliest one divided by alpha,
\* sum to exactly 1.
C13_WeightsSumToOne ==
    BlendComputed => SumVec(blend.weights, blend.k) = One

C13_Witness ==
    /\ BlendComputed
    /\ blend.k = MaxK
    /\ blend.alpha = DEFAULT_SCALING_WEIGHT
    /\ SumVec(blend.weights, blend.k) = One

MostRecentLargest ==
    \A j \in 1..blend.k : Leq(blend.weights[j], blend.weights[blend.k])

\* C14 (as claimed): for every k >= 2 and alpha in (0, 1), the weight of the
\* most recent iteration is the largest of the k blend weights.
C14_MostRecentLargest ==
    (BlendComputed /\ blend.k >= 2) => MostRecentLargest

\* C14 (amended): for every k >= 2 the weight of the most recent iteration is
\* the largest of the k blend weights exactly when alpha >= (1 - alpha)^(k - 1),
\* hence for every alpha in [1/2, 1), the default 0.8 included; for a smaller
\* alpha the earliest weight (1 - alpha)^(k - 1) can exceed it.
C14_MostRecentLargestFromHalf ==
    (BlendComputed /\ blend.k >= 2) =>
        /\ MostRecentLargest <=>
               Leq(Pow(Sub(One, blend.alpha), blend.k - 1), blend.alpha)
        /\ Leq(Half, blend.alpha) => MostRecentLargest

C14_Witness ==
    /\ BlendComputed
    /\ blend.k >= 3
    /\ blend.alpha = DEFAULT_SCALING_WEIGHT
    /\ MostRecentLargest
    /\ blend.weights[1] # blend.weights[blend.k]


----------------------------------------------------------------------------
(* The quadrature weights *)

QuadratureComputed == quadrature.weights # Unset

QuadratureSum == SumVec(quadrature.weights, Len(quadrature.weights))

\* every entry within the tolerance of the comparison: the sum within
\* len(weights) times the tolerance
SumsTo(total) ==
    LET slack == Mul(Rat(Len(quadrature.weights)), Tolerance(quadrature.method))
    IN  /\ Leq(Sub(total, slack), QuadratureSum)
        /\ Leq(QuadratureSum, Add(total, slack))

----------------------------------------------------------------------------
(* The scaling of the gradient, the Jacobian and the Hessian *)

Returned(op) == call.op = op => call.exc = ""

SameShape(op) == call.op = op => call.shape = call.arg_shape

\* C17: every exposed scaling operation of a constructed IterationScaling
\* returns a result of the shape of its argument: scale_g(g) is a vector
\* with one entry per decision variable, entry i being g[i] times the i-th
\* unstretch value; scale_G(G) has the rows and columns of G; scale_H(H)
\* returns a matrix of the shape of H without raising.
C17_SameShape ==
    /\ Returned("scale_g") /\ Returned("scale_G") /\ Returned("scale_H")
    /\ SameShape("scale_g") /\ SameShape("scale_G") /\ SameShape("scale_H")
    /\ call.op = "scale_g" =>
          \A i \in 1..Len(call.arg) : call.res[i] = Mul(call.arg[i], _V_inv[i])


----------------------------------------------------------------------------
(* The basis scaling under the operations of the iteration scalings *)

\* C16: once the Scaling object is constructed, no IterationScaling
\* construction, scale_* or unscale_x call, mesh expansion or _generate call,
\* failing or not, changes any entry of its x_scales, x_shifts or c_scales.
C16_BasisNeverMutated ==
    [][Constructed =>
          /\ x_scales' = x_scales
          /\ x_shifts' = x_shifts
          /\ c_scales' = c_scales]_vars

\* a second iteration built and generated with update_scaling enabled, after
\* calls on the first, the basis arrays being those of the construction
C16_Witness ==
    /\ Constructed
    /\ Len(mesh_iterations) >= 1
    /\ path = "_generate_from_previous"
    /\ call.op # ""
    /\ x_scales = ScalingGenerate(scaling_method, backend).x_scales
    /\ x_shifts = ScalingGenerate(scaling_method, backend).x_shifts
    /\ c_scales = ScalingGenerate(scaling_method, backend).c_scales

====
